---- MODULE Spec2Model ----
(***************************************************************************)
(* A model of OrderWebhook/__init__.py: the WhatsApp voice-order webhook.  *)
(*                                                                         *)
(*   main            one HTTP invocation, cut at its calls to the outside  *)
(*                   world (media download, blob upload, blob download,    *)
(*                   speech recognition, chat completion, log download,    *)
(*                   log upload); everything local between two such calls  *)
(*                   belongs to the action of the call before it.          *)
(*   parse_order     a pure function of the transcription, the OpenAI      *)
(*                   configuration and what the backend answers; strings   *)
(*                   are sequences of one-character strings and the two    *)
(*                   regular expressions are computed character by         *)
(*                   character.                                            *)
(*                                                                         *)
(* Python values are tagged records [t, n, s] so that values of different  *)
(* Python types can be compared.                                           *)
(*                                                                         *)
(*   Spec       NumProcs invocations of main, interleaved at every call    *)
(*   SpecSeq    the same invocations, one after the other                  *)
(*   SpecParse  parse_order alone, on every transcription of Texts         *)
(***************************************************************************)
EXTENDS Integers, Sequences, FiniteSets, TLC

\* Number of concurrent invocations of main that share the log blob.
NumProcs == 2
\* Longest transcription, in tokens, given to parse_order on its own.
MaxTokens == 4

Procs == 1..NumProcs

VARIABLES
    pc,              \* pc[p]: where invocation p of main stands
    media_url,       \* main: the local media_url, unset before line 71
    voice_file_path, \* main: the local voice_file_path, "" before download_voice returned
    blob_url,        \* main: the local blob_url, "" before upload_to_blob returned
    transcription,   \* main: the local transcription, unset before line 90 returned
    parsed_order,    \* main: the local parsed_order
    wb,              \* log_to_excel: the workbook held in memory / saved in download_file
    download_ex,     \* log_to_excel: the exception ex of line 349, "" when none was raised
    response,        \* the func.HttpResponse main returned, NoResponse before
    calls,           \* calls[p]: the helper functions invocation p has entered, in order
    files,           \* the temporary files that exist in tempfile.gettempdir()
    excelBlob,       \* the blob EXCEL_BLOB_NAME: [exists, header, rows]
    text,            \* parse_order called on its own: transcribed_text
    result,          \* parse_order called on its own: what the call did
    backendSeen,     \* parse_order called on its own: what the backend answered
    ppc              \* parse_order called on its own: "call" or "returned"

vars == <<pc, media_url, voice_file_path, blob_url, transcription, parsed_order, wb,
          download_ex, response, calls, files, excelBlob, text, result, backendSeen, ppc>>
mainVars == <<pc, media_url, voice_file_path, blob_url, transcription, parsed_order, wb,
              download_ex, response, calls, files, excelBlob>>
parseVars == <<text, result, backendSeen, ppc>>

-----------------------------------------------------------------------------
(* Python values *)

None == [t |-> "none", n |-> 0, s |-> <<>>]
IntV(i) == [t |-> "int", n |-> i, s |-> <<>>]
StrV(str) == [t |-> "str", n |-> 0, s |-> str]
\* A float, held in tenths: FloatV(25) is 2.5.
FloatV(tenths) == [t |-> "float", n |-> tenths, s |-> <<>>]
InfV == [t |-> "inf", n |-> 0, s |-> <<>>]
BoolV(b) == [t |-> "bool", n |-> IF b THEN 1 ELSE 0, s |-> <<>>]
ListV == [t |-> "list", n |-> 0, s |-> <<>>]
\* dict.get(key) on a key the JSON object does not have.
Missing == [t |-> "missing", n |-> 0, s |-> <<>>]
\* A local variable that is not bound yet.
Unset == [t |-> "unset", n |-> 0, s |-> <<>>]

-----------------------------------------------------------------------------
(* Characters and strings *)

Digits == <<"0", "1", "2", "3", "4", "5", "6", "7", "8", "9">>
UpperCase == <<"A", "B", "C", "D", "E", "F", "G", "H", "I", "J", "K", "L", "M",
               "N", "O", "P", "Q", "R", "S", "T", "U", "V", "W", "X", "Y", "Z">>
LowerCase == <<"a", "b", "c", "d", "e", "f", "g", "h", "i", "j", "k", "l", "m",
               "n", "o", "p", "q", "r", "s", "t", "u", "v", "w", "x", "y", "z">>

Range(f) == {f[i] : i \in DOMAIN f}
IndexOf(seq, c) == CHOOSE i \in DOMAIN seq : seq[i] = c

\* \d
DigitChars == Range(Digits)
\* \s
SpaceChars == {" ", "\t", "\n", "\r"}
\* [A-Za-z\u0600-\u06FF]; the texts of the model have no Arabic letter.
LetterChars == Range(UpperCase) \cup Range(LowerCase)
\* \w
WordChars == LetterChars \cup DigitChars \cup {"_"}
\* [\w\u0600-\u06FF\s-]
ItemChars == WordChars \cup SpaceChars \cup {"-"}

IsDigit(c) == c \in DigitChars
IsSpace(c) == c \in SpaceChars
IsLetter(c) == c \in LetterChars
IsWord(c) == c \in WordChars

LowerChar(c) == IF c \in Range(UpperCase) THEN LowerCase[IndexOf(UpperCase, c)] ELSE c
\* str.lower()
Lower(str) == [i \in DOMAIN str |-> LowerChar(str[i])]

\* str.strip()
Strip(str) ==
    LET keep == {i \in DOMAIN str : ~IsSpace(str[i])}
    IN  IF keep = {} THEN <<>>
        ELSE LET lo == CHOOSE i \in keep : \A j \in keep : i <= j
                 hi == CHOOSE i \in keep : \A j \in keep : j <= i
             IN  SubSeq(str, lo, hi)

\* The last index of the longest run of characters of the class C that starts at i
\* (i - 1 when str[i] is not in C): a greedy [C]* from position i.
RunEnd(str, i, C) ==
    CHOOSE j \in (i - 1)..Len(str) :
        /\ \A k \in i..j : str[k] \in C
        /\ j = Len(str) \/ str[j + 1] \notin C

RECURSIVE DigitsToInt(_)
\* int() of a string of decimal digits
DigitsToInt(ds) ==
    IF ds = <<>> THEN 0
    ELSE 10 * DigitsToInt(SubSeq(ds, 1, Len(ds) - 1)) + (IndexOf(Digits, ds[Len(ds)]) - 1)

-----------------------------------------------------------------------------
(* parse_order, lines 261-329 *)

EmptyOrder == [quantity |-> None, item |-> None]

\* int(qty), line 303: [ok, n]; ok is FALSE where Python raises.
PyInt(v) ==
    CASE v.t = "int" -> [ok |-> TRUE, n |-> v.n]
      [] v.t = "bool" -> [ok |-> TRUE, n |-> v.n]
      [] v.t = "float" ->
            [ok |-> TRUE, n |-> IF v.n >= 0 THEN v.n \div 10 ELSE -((-v.n) \div 10)]
      [] v.t = "str" ->
            LET d == Strip(v.s)
            IN  IF d # <<>> /\ \A i \in DOMAIN d : IsDigit(d[i])
                THEN [ok |-> TRUE, n |-> DigitsToInt(d)]
                ELSE [ok |-> FALSE, n |-> 0]
      [] OTHER -> [ok |-> FALSE, n |-> 0]

\* Lines 301-305: qty = obj.get("quantity"), then int(qty) unless it is None,
\* and None when int() raises.
Quantity(v) ==
    IF v.t \in {"none", "missing"} THEN None
    ELSE IF PyInt(v).ok THEN IntV(PyInt(v).n) ELSE None

\* Lines 306-308: item = obj.get("item"), stripped and lowered when it is a str.
Item(v) ==
    IF v.t = "missing" THEN None
    ELSE IF v.t = "str" THEN StrV(Lower(Strip(v.s))) ELSE v

\* What the chat-completion backend does in one call (lines 272-300).
BackendKinds == {"import_error", "raises", "content_none", "no_json", "bad_json", "object"}
QuantityValues == {Missing, None, IntV(3), StrV(<<"2">>), StrV(<<"e">>), FloatV(25),
                   InfV, BoolV(TRUE), ListV}
ItemValues == {Missing, None, StrV(<<" ", "O", "n">>), IntV(5), ListV}
NoBackend == [kind |-> "not_called", quantity |-> Missing, item |-> Missing]
Backends ==
    {[kind |-> k, quantity |-> Missing, item |-> Missing] : k \in BackendKinds \ {"object"}}
    \cup [kind : {"object"}, quantity : QuantityValues, item : ItemValues]

\* Lines 271-313, the body of the try: "return" with the order of line 309,
\* "exception" when a statement of the try raised, "no_json" for line 311.
ModelAttempt(backend) ==
    CASE backend.kind \in {"import_error", "raises", "content_none", "bad_json"} ->
            [outcome |-> "exception", order |-> EmptyOrder]
      [] backend.kind = "no_json" ->
            [outcome |-> "no_json", order |-> EmptyOrder]
      [] OTHER ->
            [outcome |-> "return",
             order |-> [quantity |-> Quantity(backend.quantity),
                        item |-> Item(backend.item)]]

\* Line 318 matched at position i: (\d+)\s+([A-Za-z][\w\s-]*). Both + are greedy and
\* giving back a character never helps: the character after the run is of the
\* run's class, not of the next.
DigitMatchAt(str, i) ==
    /\ IsDigit(str[i])
    /\ LET d == RunEnd(str, i, DigitChars)
           w == RunEnd(str, d + 1, SpaceChars)
       IN  w > d /\ w < Len(str) /\ IsLetter(str[w + 1])

\* Line 320, for the match at i.
DigitOrder(str, i) ==
    LET d == RunEnd(str, i, DigitChars)
        w == RunEnd(str, d + 1, SpaceChars)
        e == RunEnd(str, w + 1, ItemChars)
    IN  [quantity |-> IntV(DigitsToInt(SubSeq(str, i, d))),
         item |-> StrV(Lower(Strip(SubSeq(str, w + 1, e))))]

\* Line 322.
words_to_num ==
    <<[word |-> <<"o", "n", "e">>, num |-> 1],
      [word |-> <<"t", "w", "o">>, num |-> 2],
      [word |-> <<"t", "h", "r", "e", "e">>, num |-> 3],
      [word |-> <<"f", "o", "u", "r">>, num |-> 4],
      [word |-> <<"f", "i", "v", "e">>, num |-> 5],
      [word |-> <<"s", "i", "x">>, num |-> 6],
      [word |-> <<"s", "e", "v", "e", "n">>, num |-> 7],
      [word |-> <<"e", "i", "g", "h", "t">>, num |-> 8],
      [word |-> <<"n", "i", "n", "e">>, num |-> 9],
      [word |-> <<"t", "e", "n">>, num |-> 10]>>

\* The alternative k of (one|two|...) stands at position i, ignoring case.
WordAt(str, i, k) ==
    LET w == words_to_num[k].word
    IN  /\ i + Len(w) - 1 <= Len(str)
        /\ Lower(SubSeq(str, i, i + Len(w) - 1)) = w

\* Line 323 matched at position i with alternative k:
\* \b(one|...)\b\s+([A-Za-z][\w\s-]*), re.IGNORECASE.
WordMatchAt(str, i, k) ==
    /\ WordAt(str, i, k)
    /\ i = 1 \/ ~IsWord(str[i - 1])
    /\ LET d == i + Len(words_to_num[k].word) - 1
           w == RunEnd(str, d + 1, SpaceChars)
       IN  w > d /\ w < Len(str) /\ IsLetter(str[w + 1])

\* Line 325, for the match at i with alternative k.
WordOrder(str, i, k) ==
    LET d == i + Len(words_to_num[k].word) - 1
        w == RunEnd(str, d + 1, SpaceChars)
        e == RunEnd(str, w + 1, ItemChars)
    IN  [quantity |-> IntV(words_to_num[k].num),
         item |-> StrV(Lower(Strip(SubSeq(str, w + 1, e))))]

Least(S) == CHOOSE i \in S : \A j \in S : i <= j

\* Lines 315-329: re.search takes the leftmost match; digits are tried first.
RegexFallback(str) ==
    LET dm == {i \in DOMAIN str : DigitMatchAt(str, i)}
        wm == {i \in DOMAIN str : \E k \in DOMAIN words_to_num : WordMatchAt(str, i, k)}
    IN  IF dm # {} THEN DigitOrder(str, Least(dm))
        ELSE IF wm # {}
             THEN LET i == Least(wm)
                      k == CHOOSE n \in DOMAIN words_to_num : WordMatchAt(str, i, n)
                  IN  WordOrder(str, i, k)
             ELSE EmptyOrder

\* parse_order with the except clause of line 312 narrowed: an exception of the
\* model-backed path leaves the function.
parse_order_uncaught(transcribed_text, openai_endpoint, openai_key, openai_deployment, backend) ==
    IF openai_endpoint /\ openai_key /\ openai_deployment
    THEN LET a == ModelAttempt(backend)
         IN  CASE a.outcome = "return" -> [raised |-> FALSE, order |-> a.order]
               [] a.outcome = "exception" -> [raised |-> TRUE, order |-> EmptyOrder]
               [] OTHER -> [raised |-> FALSE, order |-> RegexFallback(transcribed_text)]
    ELSE [raised |-> FALSE, order |-> RegexFallback(transcribed_text)]

\* parse_order: [raised, order]. The three configuration arguments are given as
\* their truth values; backend is what the chat-completion call does if made.
parse_order(transcribed_text, openai_endpoint, openai_key, openai_deployment, backend) ==
    IF openai_endpoint /\ openai_key /\ openai_deployment
    THEN LET a == ModelAttempt(backend)
         IN  IF a.outcome = "return"
             THEN [raised |-> FALSE, order |-> a.order]
             ELSE [raised |-> FALSE, order |-> RegexFallback(transcribed_text)]
    ELSE [raised |-> FALSE, order |-> RegexFallback(transcribed_text)]

-----------------------------------------------------------------------------
(* parse_order called on its own, on every transcription of up to MaxTokens tokens *)

Tokens == {<<"2">>, <<" ">>, <<"O", "n", "e">>, <<"e">>, <<"!">>}

RECURSIVE Concat(_)
Concat(ts) == IF ts = <<>> THEN <<>> ELSE Head(ts) \o Concat(Tail(ts))

Texts == {Concat(ts) : ts \in UNION {[1..k -> Tokens] : k \in 0..MaxTokens}}

\* Chat-completion answers tried: every failure, and JSON objects that vary one key.
ObjectBackends ==
    {[kind |-> "object", quantity |-> q, item |-> None] : q \in QuantityValues}
    \cup {[kind |-> "object", quantity |-> Missing, item |-> i] : i \in ItemValues}
FailingBackends == {b \in Backends : b.kind # "object"}

NoResult == [raised |-> FALSE, order |-> EmptyOrder]
Seen(endpoint, key, deployment, backend) ==
    [openai_endpoint |-> endpoint, openai_key |-> key, openai_deployment |-> deployment,
     backend |-> backend]
\* The configurations with one of the three arguments unset (line 270).
Unconfigured ==
    {Seen(FALSE, TRUE, TRUE, NoBackend), Seen(TRUE, FALSE, TRUE, NoBackend),
     Seen(TRUE, TRUE, FALSE, NoBackend)}

-----------------------------------------------------------------------------
(* main, lines 25-127, and the helpers it calls *)

Transcripts == {<<>>, <<" ">>, <<"2", " ", "e">>}
\* Chat-completion answers tried inside main.
MainBackends ==
    {[kind |-> "raises", quantity |-> Missing, item |-> Missing],
     [kind |-> "object", quantity |-> IntV(3), item |-> StrV(<<" ", "O", "n">>)],
     [kind |-> "object", quantity |-> Missing, item |-> IntV(5)]}

NoUrl == [container |-> "", blob |-> 0]
NoJson == [status |-> "", order |-> EmptyOrder, blob_url |-> NoUrl]
NoResponse == [status_code |-> 0, mimetype |-> "", text |-> "", json |-> NoJson]
\* func.HttpResponse(text, status_code=status)
HttpResponse(body, status) ==
    [status_code |-> status, mimetype |-> "text/plain", text |-> body, json |-> NoJson]
\* Line 113.
OkResponse(order, url) ==
    [status_code |-> 200, mimetype |-> "application/json", text |-> "",
     json |-> [status |-> "ok", order |-> order, blob_url |-> url]]

NoFile == <<"", 0>>
\* Line 143, line 197 and line 343: uuid4 names, one of each per invocation.
TempVoice(p) == <<"temp_voice", p>>
TempSpeech(p) == <<"speech", p>>
TempOrders(p) == <<"orders", p>>

HeaderRow == <<"timestamp_utc", "customer_number", "item", "quantity">>
NoWorkbook == [exists |-> FALSE, header |-> <<>>, rows |-> <<>>]
\* Lines 351-353.
NewWorkbook == [exists |-> TRUE, header |-> HeaderRow, rows |-> <<>>]
\* Line 359; the customer number of invocation p is p, the timestamp is left out.
Row(p, order) == [customer_number |-> p, item |-> order.item, quantity |-> order.quantity]

Init ==
    /\ pc = [p \in Procs |-> "main"]
    /\ media_url = [p \in Procs |-> Unset]
    /\ voice_file_path = [p \in Procs |-> NoFile]
    /\ blob_url = [p \in Procs |-> NoUrl]
    /\ transcription = [p \in Procs |-> Unset]
    /\ parsed_order = [p \in Procs |-> EmptyOrder]
    /\ wb = [p \in Procs |-> NoWorkbook]
    /\ download_ex = [p \in Procs |-> ""]
    /\ response = [p \in Procs |-> NoResponse]
    /\ calls = [p \in Procs |-> <<>>]
    /\ files = {}
    /\ excelBlob = NoWorkbook
    /\ text = <<>>
    /\ result = NoResult
    /\ backendSeen = Seen(FALSE, FALSE, FALSE, NoBackend)
    /\ ppc = "idle"

\* main returns r.
Return(p, r) ==
    /\ response' = [response EXCEPT ![p] = r]
    /\ pc' = [pc EXCEPT ![p] = "done"]

\* Lines 122-127: what main returns when an exception reaches its except clause.
Unhandled(p) == Return(p, HttpResponse("Internal server error", 500))

\* Lines 114-120: the finally clause around steps 3 to 7.
Cleanup(p, fs) == fs \ {voice_file_path[p]}

Enter(p, f) == calls' = [calls EXCEPT ![p] = Append(@, f)]

\* Lines 26-76: configuration, payload, media URL.
Main(p) ==
    /\ pc[p] = "main"
    /\ \E env_ok \in BOOLEAN, url \in {<<>>, <<"u", "r", "l">>} :
          IF ~env_ok
          THEN /\ Return(p, HttpResponse("Missing environment variables", 500))
               /\ UNCHANGED media_url
          ELSE /\ media_url' = [media_url EXCEPT ![p] = StrV(url)]
               /\ IF url = <<>>
                  THEN Return(p, HttpResponse("No media found", 400))
                  ELSE /\ pc' = [pc EXCEPT ![p] = "download_voice"]
                       /\ UNCHANGED response
    /\ UNCHANGED <<voice_file_path, blob_url, transcription, parsed_order, wb,
                   download_ex, calls, files, excelBlob, parseVars>>

\* Line 80 and lines 132-149. "http_error": requests.get or raise_for_status raises,
\* before the file exists; "write_error": iter_content or f.write raises inside the
\* with block, after open created the file.
DownloadVoice(p) ==
    /\ pc[p] = "download_voice"
    /\ Enter(p, "download_voice")
    /\ \E outcome \in {"http_error", "write_error", "ok"} :
          CASE outcome = "http_error" ->
                  /\ Unhandled(p)
                  /\ UNCHANGED <<files, voice_file_path>>
            [] outcome = "write_error" ->
                  /\ files' = files \cup {TempVoice(p)}
                  /\ Unhandled(p)
                  /\ UNCHANGED voice_file_path
            [] OTHER ->
                  /\ files' = files \cup {TempVoice(p)}
                  /\ voice_file_path' = [voice_file_path EXCEPT ![p] = TempVoice(p)]
                  /\ pc' = [pc EXCEPT ![p] = "upload_to_blob"]
                  /\ UNCHANGED response
    /\ UNCHANGED <<media_url, blob_url, transcription, parsed_order, wb, download_ex,
                   excelBlob, parseVars>>

\* Line 84 and lines 152-172.
UploadToBlob(p) ==
    /\ pc[p] = "upload_to_blob"
    /\ Enter(p, "upload_to_blob")
    /\ \E ok \in BOOLEAN :
          IF ok
          THEN /\ blob_url' = [blob_url EXCEPT ![p] = [container |-> "BLOB_CONTAINER", blob |-> p]]
               /\ pc' = [pc EXCEPT ![p] = "transcribe_audio"]
               /\ UNCHANGED <<response, files>>
          ELSE /\ files' = Cleanup(p, files)
               /\ Unhandled(p)
               /\ UNCHANGED blob_url
    /\ UNCHANGED <<media_url, voice_file_path, transcription, parsed_order, wb,
                   download_ex, excelBlob, parseVars>>

\* Lines 90-96 and 185-200: transcribe_audio opens its temporary file and reads the
\* voice blob into it. The finally clause of lines 253-258 removes the file when
\* the read raises.
TranscribeDownload(p) ==
    /\ pc[p] = "transcribe_audio"
    /\ Enter(p, "transcribe_audio")
    /\ \E ok \in BOOLEAN :
          IF ok
          THEN /\ files' = files \cup {TempSpeech(p)}
               /\ pc' = [pc EXCEPT ![p] = "recognize"]
               /\ UNCHANGED response
          ELSE /\ files' = Cleanup(p, files)
               /\ Unhandled(p)
    /\ UNCHANGED <<media_url, voice_file_path, blob_url, transcription, parsed_order, wb,
                   download_ex, excelBlob, parseVars>>

\* Lines 211-258: "" when the speech key or region is unset, the SDK is not installed,
\* nothing is recognized or recognition is canceled; result.text when speech is
\* recognized; an exception when the SDK raises. The finally clause removes the file.
Recognize(p) ==
    /\ pc[p] = "recognize"
    /\ \E outcome \in {"ok", "sdk_error"}, t \in Transcripts :
          IF outcome = "ok"
          THEN /\ transcription' = [transcription EXCEPT ![p] = StrV(t)]
               /\ files' = files \ {TempSpeech(p)}
               /\ pc' = [pc EXCEPT ![p] = "parse_order"]
               /\ UNCHANGED response
          ELSE /\ files' = Cleanup(p, files \ {TempSpeech(p)})
               /\ Unhandled(p)
               /\ UNCHANGED transcription
    /\ UNCHANGED <<media_url, voice_file_path, blob_url, parsed_order, wb, download_ex,
                   calls, excelBlob, parseVars>>

\* Lines 99-104. AZURE_OPENAI_ENDPOINT and AZURE_OPENAI_KEY are set (line 48);
\* AZURE_OPENAI_DEPLOYMENT may be unset.
ParseOrder(p) ==
    /\ pc[p] = "parse_order"
    /\ Enter(p, "parse_order")
    /\ \E deployment \in BOOLEAN, backend \in MainBackends :
          LET r == parse_order(transcription[p].s, TRUE, TRUE, deployment, backend)
          IN  IF r.raised
              THEN /\ files' = Cleanup(p, files)
                   /\ Unhandled(p)
                   /\ UNCHANGED parsed_order
              ELSE /\ parsed_order' = [parsed_order EXCEPT ![p] = r.order]
                   /\ pc' = [pc EXCEPT ![p] = "log_to_excel"]
                   /\ UNCHANGED <<response, files>>
    /\ UNCHANGED <<media_url, voice_file_path, blob_url, transcription, wb, download_ex,
                   excelBlob, parseVars>>

\* Lines 346-356: the workbook log_to_excel goes on with. "downloaded": the blob was
\* read and load_workbook parsed it; any exception of the read, the blob being
\* absent or not, gives a new workbook with the header row.
Workbook(outcome, blob) ==
    IF outcome = "downloaded" THEN blob ELSE NewWorkbook

\* AppendRow with the row written twice.
AppendRowTwice(w, row) == [w EXCEPT !.rows = Append(Append(@, row), row)]

\* Line 359.
AppendRow(w, row) == [w EXCEPT !.rows = Append(@, row)]

\* Line 349: the exception the read of the blob raised, "" when it raised none.
DownloadException(outcome, blob) ==
    IF outcome # "download_error" THEN ""
    ELSE IF blob.exists THEN "ServiceError" ELSE "ResourceNotFound"

\* Lines 107 and 337-360: log_to_excel up to wb.save. open creates download_file
\* before the blob is read. "download_error": download_blob or the write raises,
\* which it does when the blob is absent and may do when it exists; "load_error":
\* load_workbook raises; "save_error": wb.save raises. The last two are inside no
\* try of log_to_excel.
LogToExcel(p) ==
    /\ pc[p] = "log_to_excel"
    /\ Enter(p, "log_to_excel")
    /\ \E outcome \in {"downloaded", "download_error", "load_error", "save_error"} :
          /\ outcome \in {"downloaded", "load_error"} => excelBlob.exists
          /\ download_ex' = [download_ex EXCEPT ![p] = DownloadException(outcome, excelBlob)]
          /\ IF outcome \in {"load_error", "save_error"}
             THEN /\ files' = Cleanup(p, files \cup {TempOrders(p)})
                  /\ Unhandled(p)
                  /\ UNCHANGED wb
             ELSE /\ files' = files \cup {TempOrders(p)}
                  /\ wb' = [wb EXCEPT ![p] = AppendRow(Workbook(outcome, excelBlob),
                                                       Row(p, parsed_order[p]))]
                  /\ pc' = [pc EXCEPT ![p] = "upload_log"]
                  /\ UNCHANGED response
    /\ UNCHANGED <<media_url, voice_file_path, blob_url, transcription, parsed_order, excelBlob,
                   parseVars>>

\* Lines 362-372, then lines 112-120: upload_blob(overwrite=True) replaces the blob
\* by the saved workbook, download_file is removed, main returns. When the upload
\* raises, line 370 is not reached.
UploadLog(p) ==
    /\ pc[p] = "upload_log"
    /\ \E ok \in BOOLEAN :
          IF ok
          THEN /\ excelBlob' = wb[p]
               /\ files' = Cleanup(p, files \ {TempOrders(p)})
               /\ Return(p, OkResponse(parsed_order[p], blob_url[p]))
          ELSE /\ files' = Cleanup(p, files)
               /\ Unhandled(p)
               /\ UNCHANGED excelBlob
    /\ UNCHANGED <<media_url, voice_file_path, blob_url, transcription, parsed_order, wb,
                   download_ex, calls, parseVars>>

\* One step of invocation p.
Step(p) ==
    \/ Main(p)
    \/ DownloadVoice(p)
    \/ UploadToBlob(p)
    \/ TranscribeDownload(p)
    \/ Recognize(p)
    \/ ParseOrder(p)
    \/ LogToExcel(p)
    \/ UploadLog(p)

\* Invocations run concurrently: any of them takes the next step.
Next == \E p \in Procs : Step(p)

Spec == Init /\ [][Next]_vars

\* Invocations run one after the other: p steps while no other one is under way.
NextSeq ==
    \E p \in Procs :
        /\ \A q \in Procs \ {p} : pc[q] \in {"main", "done"}
        /\ Step(p)

SpecSeq == Init /\ [][NextSeq]_vars

-----------------------------------------------------------------------------
(* parse_order on its own *)

InitParse ==
    /\ pc = [p \in Procs |-> "done"]
    /\ media_url = [p \in Procs |-> Unset]
    /\ voice_file_path = [p \in Procs |-> NoFile]
    /\ blob_url = [p \in Procs |-> NoUrl]
    /\ transcription = [p \in Procs |-> Unset]
    /\ parsed_order = [p \in Procs |-> EmptyOrder]
    /\ wb = [p \in Procs |-> NoWorkbook]
    /\ download_ex = [p \in Procs |-> ""]
    /\ response = [p \in Procs |-> NoResponse]
    /\ calls = [p \in Procs |-> <<>>]
    /\ files = {}
    /\ excelBlob = NoWorkbook
    /\ text \in Texts
    /\ result = NoResult
    /\ backendSeen = Seen(FALSE, FALSE, FALSE, NoBackend)
    /\ ppc = "call"

\* parse_order with all three arguments set: the chat completion is attempted.
CallConfigured ==
    /\ ppc = "call"
    /\ \E backend \in FailingBackends \cup ObjectBackends :
          /\ result' = parse_order(text, TRUE, TRUE, TRUE, backend)
          /\ backendSeen' = Seen(TRUE, TRUE, TRUE, backend)
    /\ ppc' = "returned"
    /\ UNCHANGED <<text, mainVars>>

\* parse_order with one argument unset: the regex parser alone.
CallUnconfigured ==
    /\ ppc = "call"
    /\ \E c \in Unconfigured :
          /\ result' = parse_order(text, c.openai_endpoint, c.openai_key,
                                   c.openai_deployment, c.backend)
          /\ backendSeen' = c
    /\ ppc' = "returned"
    /\ UNCHANGED <<text, mainVars>>

NextParse == CallConfigured \/ CallUnconfigured

SpecParse == InitParse /\ [][NextParse]_vars

-----------------------------------------------------------------------------
(* Properties *)

Entered(p, f) == \E i \in DOMAIN calls[p] : calls[p][i] = f
TimesEntered(p, f) == Cardinality({i \in DOMAIN calls[p] : calls[p][i] = f})
Returned(p) == pc[p] = "done"
Succeeded(p) == Returned(p) /\ response[p].status_code = 200
\* str.strip() leaves nothing.
IsBlank(str) == Strip(str) = <<>>
\* The rows of the stored log that invocation p wrote.
RowsOf(p) == {i \in DOMAIN excelBlob.rows : excelBlob.rows[i].customer_number = p}
IsPrefix(a, b) == Len(a) <= Len(b) /\ SubSeq(b, 1, Len(a)) = a

\* C1: a request without a media URL is answered 200 or 202 and enters none of
\* the downstream steps.
C1_NoMediaAccepted ==
    \A p \in Procs :
        (Returned(p) /\ media_url[p] = StrV(<<>>)) =>
            /\ response[p].status_code \in {200, 202}
            /\ calls[p] = <<>>

\* C2: after a blank or whitespace-only transcription parse_order is not called,
\* nothing is logged and main answers 200 with a plain-text body.
C2_BlankTranscriptionStops ==
    \A p \in Procs :
        (transcription[p].t = "str" /\ IsBlank(transcription[p].s)) =>
            /\ ~Entered(p, "parse_order")
            /\ ~Entered(p, "log_to_excel")
            /\ Returned(p) =>
                  /\ response[p].status_code = 200
                  /\ response[p].mimetype = "text/plain"

\* C3: a request that got as far as log_to_excel (download, transcription and
\* extraction succeeded) ends with the success response, whatever log_to_excel did.
C3_LogFailureDoesNotAbort ==
    \A p \in Procs :
        (Returned(p) /\ Entered(p, "log_to_excel")) => response[p].status_code = 200

\* C4: when main has returned, none of the temporary files of the request exists.
C4_NoTempFileLeft ==
    \A p \in Procs :
        Returned(p) => files \cap {TempVoice(p), TempSpeech(p), TempOrders(p)} = {}

\* C5: with requests handled one after the other, every change of the stored log
\* keeps the rows stored before, in order, and adds exactly one row; an existing
\* log is never replaced by a fresh workbook.
C5_LogAppendOnly ==
    [][excelBlob.exists =>
          /\ excelBlob'.exists
          /\ excelBlob' # excelBlob =>
                /\ IsPrefix(excelBlob.rows, excelBlob'.rows)
                /\ Len(excelBlob'.rows) = Len(excelBlob.rows) + 1]_vars

\* C6 as claimed: once every invocation has returned, the log holds exactly one row
\* for each invocation that returned the success response and none for an
\* invocation that failed before extraction. It is taken over the runs in which no
\* read of an existing log failed, so that the replacement of the log that C5 is
\* about plays no part.
C6_OneRowPerSuccess ==
    (/\ \A p \in Procs : Returned(p)
     /\ \A p \in Procs : download_ex[p] # "ServiceError") =>
        \A p \in Procs :
            /\ Succeeded(p) => Cardinality(RowsOf(p)) = 1
            /\ ~Entered(p, "log_to_excel") => RowsOf(p) = {}

\* C6 as amended: at every moment the log holds at most one row for each invocation
\* and none for an invocation that did not return the success response, and the
\* last row of an existing log is the row of an invocation that returned the
\* success response, with the order that response carries. (A row of a successful
\* invocation can be missing: the last upload_blob wins.)
C6_AtMostOneRowLastWriterKept ==
    /\ \A p \in Procs :
          /\ Cardinality(RowsOf(p)) <= 1
          /\ ~Succeeded(p) => RowsOf(p) = {}
    /\ excelBlob.exists =>
          /\ excelBlob.header = HeaderRow
          /\ excelBlob.rows # <<>>
          /\ LET last == excelBlob.rows[Len(excelBlob.rows)]
             IN  /\ Succeeded(last.customer_number)
                 /\ last = Row(last.customer_number,
                               response[last.customer_number].json.order)

\* C6, its case: two invocations read the log while it was absent, both uploaded
\* their workbook and returned the success response, and the log holds the row of
\* the later one only.
C6_Witness ==
    \E p, q \in Procs :
        /\ p # q
        /\ Succeeded(p) /\ Succeeded(q)
        /\ download_ex[p] = "ResourceNotFound" /\ download_ex[q] = "ResourceNotFound"
        /\ RowsOf(p) = {}
        /\ excelBlob.rows = <<Row(q, parsed_order[q])>>

\* C7: a request that returned the success response had the notifier called
\* exactly once, after log_to_excel.
C7_CustomerNotified ==
    \A p \in Procs :
        Succeeded(p) =>
            /\ TimesEntered(p, "send_confirmation") = 1
            /\ calls[p][Len(calls[p])] = "send_confirmation"

\* The chat completion was not available, raised, or answered no parsable JSON.
BackendFailed ==
    \/ ~(backendSeen.openai_endpoint /\ backendSeen.openai_key /\ backendSeen.openai_deployment)
    \/ backendSeen.backend.kind # "object"
\* The transcription holds a quantity (digits or a number word) followed by an item.
HasQuantityAndItem(str) ==
    \E i \in DOMAIN str :
        DigitMatchAt(str, i) \/ \E k \in DOMAIN words_to_num : WordMatchAt(str, i, k)

C9_NoInternalDetailInBody ==
    \A p \in Procs :
        Returned(p) =>
            /\ response[p].status_code = 500 =>
                  /\ response[p].text \in {"Internal server error",
                                           "Missing environment variables"}
                  /\ response[p].json = NoJson
            /\ response[p].json.blob_url = NoUrl

\* C10: parse_order returns a quantity that is an int or None and an item that is
\* a str or None.
C10_OrderTypes ==
    ppc = "returned" =>
        /\ ~result.raised
        /\ result.order.quantity.t \in {"int", "none"}
        /\ result.order.item.t \in {"str", "none"}

====
